---- MODULE Spec2Model ----
(***************************************************************************)
(* A model of edit/bzlmod/bzlmod.go: the functions that inspect and edit   *)
(* the use_extension / use_repo statements of a MODULE.bazel file and that *)
(* collect the module-name -> apparent-name mapping over include()d files. *)
(*                                                                         *)
(* Syntax trees are records that mirror the build package's node types:    *)
(*   Ident      [type, Name]          StringExpr [type, Value]             *)
(*   AssignExpr [type, LHS, RHS]      DotExpr    [type, X, Name]           *)
(*   CallExpr   [type, X, List, Pos]  (Pos is Pos.Byte)                    *)
(* A *build.CallExpr is an index into the statement sequence that owns it, *)
(* so an edit made through the pointer is seen through the file.           *)
(***************************************************************************)
EXTENDS Integers, Sequences, FiniteSets, TLC

VARIABLES
    \* --- AddRepoUsages / RemoveRepoUsages / UseRepos -----------------------
    stmts,      \* f.Stmt of the file the use_repo calls live in
    initial,    \* f.Stmt as parsed (history)
    useRepos,   \* the []*build.CallExpr handed to the mutators (indices into stmts)
    collected,  \* TRUE when useRepos is the result of UseRepos(f, proxies)
    selected,   \* TRUE once useRepos has been chosen
    before,     \* stmts right before the last mutator call (history)
    call,       \* the last mutator call: [op, repos]
    panicked,   \* TRUE after panic("useRepos must not be empty")
    ncalls,     \* number of mutator calls made
    \* --- NewUseRepo ---------------------------------------------------------
    arrays,     \* the backing arrays of []build.Expr slices; Len = capacity
    file,       \* f.Stmt as a slice header [array, len]
    origStmt,   \* the statements seen through f before the call (history)
    insProxies, \* the proxies argument
    insRet,     \* what NewUseRepo returned: [called, file, useRepo]
    \* --- Proxies / AllProxies -----------------------------------------------
    modFile,    \* f.Stmt of the inspected MODULE.bazel
    query,      \* the proxy argument of AllProxies
    allProxies, \* [called, result]
    \* --- collectApparentNames -----------------------------------------------
    fileReader, \* path -> parsed *build.File, or Nil
    loop        \* the locals of collectApparentNames and its position

mutVars == <<stmts, initial, useRepos, collected, selected, before, call, panicked, ncalls>>
insVars == <<arrays, file, origStmt, insProxies, insRet>>
prxVars == <<modFile, query, allProxies>>
resVars == <<fileReader, loop>>
vars == <<mutVars, insVars, prxVars, resVars>>

\* the nil pointer, the nil interface value and the zero value of a slot
Nil == [type |-> "nil"]

Range(s) == {s[i] : i \in DOMAIN s}

(***************************************************************************)
(* Constructors of syntax-tree nodes.                                      *)
(***************************************************************************)
Ident(n) == [type |-> "Ident", Name |-> n]
Str(v) == [type |-> "StringExpr", Value |-> v]
Assign(l, r) == [type |-> "AssignExpr", LHS |-> l, RHS |-> r]
Kw(k, r) == Assign(Ident(k), r)
Dot(x, n) == [type |-> "DotExpr", X |-> x, Name |-> n]
Call(x, list, pos) == [type |-> "CallExpr", X |-> x, List |-> list, Pos |-> pos]

(***************************************************************************)
(* Bounds of the model.                                                    *)
(***************************************************************************)
MaxUseRepos == 2    \* statements in the file edited by the mutators
MaxRepos == 2       \* length of a repos argument
MaxCalls == 2       \* mutator calls in one behaviour

RepoNames == {"", "a"}

SeqsUpTo(S, n) == UNION {[1..k -> S] : k \in 0..n}

(***************************************************************************)
(* repoFromUseRepoArg                                                      *)
(***************************************************************************)
repoFromUseRepoArg(arg) ==
    IF arg.type = "StringExpr" THEN arg.Value
    ELSE IF arg.type = "AssignExpr" /\ arg.RHS.type = "StringExpr" THEN arg.RHS.Value
    ELSE ""

(***************************************************************************)
(* UseRepos: the use_repo calls of f whose first argument is an identifier *)
(* naming one of the proxies, as pointers (indices), in file order.        *)
(***************************************************************************)
IsUseRepoOf(stmt, proxiesSet) ==
    /\ stmt.type = "CallExpr"
    /\ stmt.X.type = "Ident"
    /\ stmt.X.Name = "use_repo"
    /\ Len(stmt.List) >= 1
    /\ stmt.List[1].type = "Ident"
    /\ stmt.List[1].Name \in proxiesSet

UseRepos(f, proxies) ==
    LET proxiesSet == Range(proxies)
    IN  SelectSeq([i \in 1..Len(f) |-> i], LAMBDA i : IsUseRepoOf(f[i], proxiesSet))

(***************************************************************************)
(* getLastUseRepo: the call with the greatest Pos.Byte, the first of them  *)
(* on a tie; 0 is the nil pointer.                                         *)
(***************************************************************************)
getLastUseRepo(heap, ptrs) ==
    LET last[k \in 0..Len(ptrs)] ==
            IF k = 0 THEN 0
            ELSE IF last[k-1] = 0 \/ heap[ptrs[k]].Pos > heap[last[k-1]].Pos
                 THEN ptrs[k]
                 ELSE last[k-1]
    IN  last[Len(ptrs)]

(***************************************************************************)
(* AddRepoUsages: [panic, heap] after the call.                            *)
(***************************************************************************)
\* lines 133-152: collect the names already present, then append to the last call
AppendUnseen(heap, ptrs, repos) ==
    LET seen == UNION {{repoFromUseRepoArg(heap[p].List[j]) : j \in 2..Len(heap[p].List)}
                        : p \in Range(ptrs)}
        lastUseRepo == getLastUseRepo(heap, ptrs)
        \* seen is not extended while the repos are appended
        toAdd == SelectSeq(repos, LAMBDA r : r \notin seen)
        added == [k \in 1..Len(toAdd) |-> Str(toAdd[k])]
    IN  [heap EXCEPT ![lastUseRepo].List = @ \o added]

\* mutant: the emptiness of useRepos is tested before that of repos
AddRepoUsagesPanicFirst(heap, ptrs, repos) ==
    IF Len(ptrs) = 0 THEN [panic |-> TRUE, heap |-> heap]
    ELSE IF Len(repos) = 0 THEN [panic |-> FALSE, heap |-> heap]
    ELSE [panic |-> FALSE, heap |-> AppendUnseen(heap, ptrs, repos)]

AddRepoUsages(heap, ptrs, repos) ==
    IF Len(repos) = 0 THEN [panic |-> FALSE, heap |-> heap]
    ELSE IF Len(ptrs) = 0 THEN [panic |-> TRUE, heap |-> heap]
    ELSE [panic |-> FALSE, heap |-> AppendUnseen(heap, ptrs, repos)]

(***************************************************************************)
(* RemoveRepoUsages: the heap after the call.                              *)
(***************************************************************************)
RemoveFromCall(useRepo, toRemove) ==
    IF Len(useRepo.List) = 0 THEN useRepo
    ELSE LET args == SelectSeq(Tail(useRepo.List),
                               LAMBDA arg : repoFromUseRepoArg(arg) \notin toRemove)
         IN  [useRepo EXCEPT !.List = <<useRepo.List[1]>> \o args]

\* mutant: the loop filters the whole of List instead of List[1:]
RemoveRepoUsagesNoSkip(heap, ptrs, repos) ==
    IF Len(ptrs) = 0 \/ Len(repos) = 0 THEN heap
    ELSE LET toRemove == Range(repos)
             h[k \in 0..Len(ptrs)] ==
                 IF k = 0 THEN heap
                 ELSE [h[k-1] EXCEPT ![ptrs[k]].List =
                          SelectSeq(@, LAMBDA arg : repoFromUseRepoArg(arg) \notin toRemove)]
         IN  h[Len(ptrs)]

RemoveRepoUsages(heap, ptrs, repos) ==
    IF Len(ptrs) = 0 \/ Len(repos) = 0 THEN heap
    ELSE LET toRemove == Range(repos)
             h[k \in 0..Len(ptrs)] ==
                 IF k = 0 THEN heap
                 ELSE [h[k-1] EXCEPT ![ptrs[k]] = RemoveFromCall(@, toRemove)]
         IN  h[Len(ptrs)]

(***************************************************************************)
(* The files the mutators are run on: use_repo calls of every shape the    *)
(* functions distinguish, at increasing positions.                         *)
(***************************************************************************)
UseRepoShapes ==
    { Call(Ident("use_repo"), <<Ident("ext2"), Str("b")>>, 0),
      Call(Ident("use_repo"),
           <<Ident("ext"), Kw("my_a", Str("a")), Ident("dev"), Kw("my_b", Ident("b_name"))>>, 0),
      Call(Ident("use_repo"), <<>>, 0),
      Call(Ident("use_repo"), <<Str("a")>>, 0) }

Positioned(shapes) == [i \in 1..Len(shapes) |-> [shapes[i] EXCEPT !.Pos = 10 * i]]

MutFiles == {Positioned(s) : s \in SeqsUpTo(UseRepoShapes, MaxUseRepos)}

ProxyLists == {<<>>, <<"ext">>, <<"ext2">>, <<"ext", "ext2">>}

InsIdle == [called |-> FALSE, file |-> Nil, useRepo |-> Nil]
PrxIdle == [called |-> FALSE, result |-> <<>>]
ResIdle == [pc |-> "idle"]

InitMutate ==
    /\ stmts \in MutFiles
    /\ initial = stmts
    /\ useRepos = <<>>
    /\ collected = FALSE
    /\ selected = FALSE
    /\ before = stmts
    /\ call = [op |-> "none", repos |-> <<>>]
    /\ panicked = FALSE
    /\ ncalls = 0
    /\ arrays = <<>> /\ file = Nil /\ origStmt = <<>> /\ insProxies = <<>> /\ insRet = InsIdle
    /\ modFile = <<>> /\ query = "" /\ allProxies = PrxIdle
    /\ fileReader = <<>> /\ loop = ResIdle

\* the caller obtains the calls from UseRepos(f, proxies)
CallUseRepos ==
    /\ ~selected
    /\ \E proxies \in ProxyLists : useRepos' = UseRepos(stmts, proxies)
    /\ collected' = TRUE
    /\ selected' = TRUE
    /\ UNCHANGED <<stmts, initial, before, call, panicked, ncalls, insVars, prxVars, resVars>>

\* the caller passes any list of calls of the file
PassUseRepos ==
    /\ ~selected
    /\ useRepos' \in {s \in SeqsUpTo(1..Len(stmts), MaxUseRepos) :
                        \A i, j \in DOMAIN s : i # j => s[i] # s[j]}
    /\ collected' = FALSE
    /\ selected' = TRUE
    /\ UNCHANGED <<stmts, initial, before, call, panicked, ncalls, insVars, prxVars, resVars>>

CallAddRepoUsages ==
    /\ selected /\ ~panicked /\ ncalls < MaxCalls
    /\ \E repos \in SeqsUpTo(RepoNames, MaxRepos) :
          LET r == AddRepoUsages(stmts, useRepos, repos)
          IN  /\ stmts' = r.heap
              /\ panicked' = r.panic
              /\ call' = [op |-> "AddRepoUsages", repos |-> repos]
    /\ before' = stmts
    /\ ncalls' = ncalls + 1
    /\ UNCHANGED <<initial, useRepos, collected, selected, insVars, prxVars, resVars>>

CallRemoveRepoUsages ==
    /\ selected /\ ~panicked /\ ncalls < MaxCalls
    /\ \E repos \in SeqsUpTo(RepoNames, MaxRepos) :
          /\ stmts' = RemoveRepoUsages(stmts, useRepos, repos)
          /\ call' = [op |-> "RemoveRepoUsages", repos |-> repos]
    /\ before' = stmts
    /\ ncalls' = ncalls + 1
    /\ UNCHANGED <<initial, useRepos, collected, selected, panicked, insVars, prxVars, resVars>>

NextMutate ==
    \/ CallUseRepos
    \/ PassUseRepos
    \/ CallAddRepoUsages
    \/ CallRemoveRepoUsages

SpecMutate == InitMutate /\ [][NextMutate]_vars

(***************************************************************************)
(* parseBooleanKeywordArg, parseUseExtension, parseTag                     *)
(***************************************************************************)
parseBooleanKeywordArg(arg, name) ==
    IF arg.type # "AssignExpr" THEN FALSE
    ELSE IF arg.LHS.type # "Ident" \/ arg.LHS.Name # name THEN FALSE
    ELSE IF arg.RHS.type = "Ident" /\ arg.RHS.Name = "False" THEN FALSE
    ELSE TRUE

NoUseExtension == [proxy |-> "", bzlFile |-> "", name |-> "", dev |-> FALSE, isolate |-> FALSE]

parseUseExtension(stmt) ==
    IF stmt.type # "AssignExpr" THEN NoUseExtension
    ELSE IF stmt.LHS.type # "Ident" THEN NoUseExtension
    ELSE IF stmt.RHS.type # "CallExpr" THEN NoUseExtension
    ELSE IF stmt.RHS.X.type # "Ident" THEN NoUseExtension
    ELSE IF stmt.RHS.X.Name # "use_extension" THEN NoUseExtension
    ELSE IF Len(stmt.RHS.List) < 2 THEN NoUseExtension
    ELSE IF stmt.RHS.List[1].type # "StringExpr" THEN NoUseExtension
    ELSE IF stmt.RHS.List[2].type # "StringExpr" THEN NoUseExtension
    ELSE LET list == stmt.RHS.List
         IN  [proxy |-> stmt.LHS.Name,
              bzlFile |-> list[1].Value,
              name |-> list[2].Value,
              dev |-> \E k \in 3..Len(list) : parseBooleanKeywordArg(list[k], "dev_dependency"),
              isolate |-> \E k \in 3..Len(list) : parseBooleanKeywordArg(list[k], "isolate")]

parseTag(stmt) ==
    IF stmt.type # "CallExpr" THEN ""
    ELSE IF stmt.X.type # "DotExpr" THEN ""
    ELSE IF stmt.X.X.type # "Ident" THEN ""
    ELSE stmt.X.X.Name

(***************************************************************************)
(* lastProxyUsage: [lastUsage, lastProxy], lastUsage a 0-based index or -1 *)
(***************************************************************************)
\* mutant: a usage is recorded only while none has been found
lastProxyUsageFirst(f, proxies) ==
    LET proxiesSet == Range(proxies)
        scan[k \in 0..Len(f)] ==
            IF k = 0 THEN [lastUsage |-> -1, lastProxy |-> ""]
            ELSE LET ext == parseUseExtension(f[k]).proxy
                     tag == parseTag(f[k])
                 IN  IF scan[k-1].lastUsage # -1 THEN scan[k-1]
                     ELSE IF ext # "" /\ ext \in proxiesSet
                     THEN [lastUsage |-> k - 1, lastProxy |-> ext]
                     ELSE IF tag # "" /\ tag \in proxiesSet
                     THEN [lastUsage |-> k - 1, lastProxy |-> tag]
                     ELSE scan[k-1]
    IN  scan[Len(f)]

lastProxyUsage(f, proxies) ==
    LET proxiesSet == Range(proxies)
        scan[k \in 0..Len(f)] ==
            IF k = 0 THEN [lastUsage |-> -1, lastProxy |-> ""]
            ELSE LET ext == parseUseExtension(f[k]).proxy
                     tag == parseTag(f[k])
                 IN  IF ext # "" /\ ext \in proxiesSet
                     THEN [lastUsage |-> k - 1, lastProxy |-> ext]
                     ELSE IF tag # "" /\ tag \in proxiesSet
                     THEN [lastUsage |-> k - 1, lastProxy |-> tag]
                     ELSE scan[k-1]
    IN  scan[Len(f)]

(***************************************************************************)
(* Slices.  A slice header is [array, len]: a backing array (an index into *)
(* arrays) and a length; every slice here starts at offset 0, so its       *)
(* capacity is the length of its backing array.                            *)
(***************************************************************************)
View(mem, s) == SubSeq(mem[s.array], 1, s.len)

\* append(s, elems...): in place when the capacity suffices, otherwise into a
\* newly allocated array.  [arrays, slice]
GoAppend(mem, s, elems) ==
    IF s.len + Len(elems) <= Len(mem[s.array])
    THEN [arrays |-> [mem EXCEPT ![s.array] =
                         [k \in 1..Len(@) |->
                             IF k > s.len /\ k <= s.len + Len(elems)
                             THEN elems[k - s.len]
                             ELSE @[k]]],
          slice |-> [array |-> s.array, len |-> s.len + Len(elems)]]
    ELSE [arrays |-> Append(mem, View(mem, s) \o elems),
          slice |-> [array |-> Len(mem) + 1, len |-> s.len + Len(elems)]]

(***************************************************************************)
(* NewUseRepo: [arrays, file, useRepo]; file is the Stmt slice of the      *)
(* returned *build.File.                                                   *)
(***************************************************************************)
NewUseRepo(mem, f, proxies) ==
    LET stmt == View(mem, f)
        last == lastProxyUsage(stmt, proxies)
    IN  IF last.lastUsage = -1
        THEN [arrays |-> mem, file |-> f, useRepo |-> Nil]
        ELSE LET useRepo == Call(Ident("use_repo"), <<Ident(last.lastProxy)>>, 0)
                 \* append([]build.Expr{useRepo}, f.Stmt[lastUsage+1:]...): a copy
                 tail == <<useRepo>> \o SubSeq(stmt, last.lastUsage + 2, Len(stmt))
                 \* append(f.Stmt[:lastUsage+1], tail...)
                 r == GoAppend(mem, [array |-> f.array, len |-> last.lastUsage + 1], tail)
             IN  [arrays |-> r.arrays, file |-> r.slice, useRepo |-> useRepo]

(***************************************************************************)
(* The files NewUseRepo is run on, each with 0..MaxSpare spare slots in    *)
(* the backing array of f.Stmt.                                            *)
(***************************************************************************)
MaxFileLen == 3     \* statements in the file handed to NewUseRepo
MaxSpare == 1       \* cap(f.Stmt) - len(f.Stmt)

UseExtension(proxy, bzlFile, name, kwargs) ==
    Assign(Ident(proxy), Call(Ident("use_extension"), <<Str(bzlFile), Str(name)>> \o kwargs, 0))

InsShapes ==
    { UseExtension("ext", "//:e.bzl", "e", <<>>),
      UseExtension("ext2", "//:e.bzl", "e", <<Kw("dev_dependency", Ident("True"))>>),
      Call(Dot(Ident("ext"), "tag"), <<Kw("name", Str("a"))>>, 0),
      Call(Dot(Ident("ext2"), "tag"), <<>>, 0),
      Call(Ident("use_repo"), <<Ident("ext"), Str("a")>>, 0),
      Assign(Ident("ext"), Call(Ident("use_extension"), <<Str("//:e.bzl")>>, 0)),
      Call(Ident("bazel_dep"), <<Kw("name", Str("m"))>>, 0) }

InsProxyLists == {<<>>, <<"ext">>, <<"ext2">>, <<"ext", "ext2">>, <<"">>}

InitInsert ==
    /\ \E f \in SeqsUpTo(InsShapes, MaxFileLen), spare \in 0..MaxSpare :
          /\ arrays = <<f \o [k \in 1..spare |-> Nil]>>
          /\ file = [array |-> 1, len |-> Len(f)]
          /\ origStmt = f
    /\ insProxies \in InsProxyLists
    /\ insRet = InsIdle
    /\ stmts = <<>> /\ initial = <<>> /\ useRepos = <<>> /\ collected = FALSE
    /\ selected = FALSE /\ before = <<>> /\ call = [op |-> "none", repos |-> <<>>]
    /\ panicked = FALSE /\ ncalls = 0
    /\ modFile = <<>> /\ query = "" /\ allProxies = PrxIdle
    /\ fileReader = <<>> /\ loop = ResIdle

CallNewUseRepo ==
    /\ file # Nil
    /\ ~insRet.called
    /\ LET r == NewUseRepo(arrays, file, insProxies)
       IN  /\ arrays' = r.arrays
           /\ insRet' = [called |-> TRUE, file |-> r.file, useRepo |-> r.useRepo]
    /\ UNCHANGED <<file, origStmt, insProxies, mutVars, prxVars, resVars>>

NextInsert == CallNewUseRepo

SpecInsert == InitInsert /\ [][NextInsert]_vars

(***************************************************************************)
(* The build package's view of a file as rules: the calls that are         *)
(* statements or right-hand sides of assignment statements, a rule's kind  *)
(* (the dotted name it calls) and its string attributes.                   *)
(***************************************************************************)
RECURSIVE Rules(_)
Rules(f) ==
    IF Len(f) = 0 THEN <<>>
    ELSE LET stmt == Head(f)
             expr == IF stmt.type = "AssignExpr" THEN stmt.RHS ELSE stmt
         IN  (IF expr.type = "CallExpr" THEN <<expr>> ELSE <<>>) \o Rules(Tail(f))

Kind(rule) ==
    IF rule.X.type = "Ident" THEN rule.X.Name
    ELSE IF rule.X.type = "DotExpr" /\ rule.X.X.type = "Ident"
         THEN rule.X.X.Name \o "." \o rule.X.Name
    ELSE ""

\* the value of the first key = "string" argument with that key, else ""
AttrString(rule, key) ==
    LET isAttr(arg) == arg.type = "AssignExpr" /\ arg.LHS.type = "Ident" /\ arg.LHS.Name = key
        attrs == SelectSeq(rule.List, isAttr)
    IN  IF Len(attrs) = 0 THEN ""
        ELSE IF attrs[1].RHS.type = "StringExpr" THEN attrs[1].RHS.Value
        ELSE ""

(***************************************************************************)
(* The labels package on the label strings that occur in the model:        *)
(* ParseRelative(raw, "") and Parse(raw) as [Repository, Package, Target], *)
(* and Format, the @repo//pkg:target spelling.                             *)
(***************************************************************************)
Label(repo, pkg, target) == [Repository |-> repo, Package |-> pkg, Target |-> target]

ParseRelative(raw) ==
    CASE raw = "//:e.bzl" -> Label("", "", "e.bzl")
      [] raw = "@//:e.bzl" -> Label("", "", "e.bzl")
      [] raw = ":e.bzl" -> Label("", "", "e.bzl")
      [] raw = "e.bzl" -> Label("", "", "e.bzl")
      [] raw = "@m//:e.bzl" -> Label("m", "", "e.bzl")
      [] raw = "@r//:e.bzl" -> Label("r", "", "e.bzl")
      [] raw = "//:f.bzl" -> Label("", "", "f.bzl")
      [] raw = "//:MODULE.bazel" -> Label("", "", "MODULE.bazel")
      [] raw = "//:a.MODULE.bazel" -> Label("", "", "a.MODULE.bazel")
      [] raw = "//sub:b.MODULE.bazel" -> Label("", "sub", "b.MODULE.bazel")
      [] raw = "//:sub/b.MODULE.bazel" -> Label("", "", "sub/b.MODULE.bazel")
      [] raw = "//:c.MODULE.bazel" -> Label("", "", "c.MODULE.bazel")

Format(label) ==
    (IF label.Repository # "" THEN "@" \o label.Repository ELSE "")
        \o "//" \o label.Package \o ":" \o label.Target

\* path.Join(pkg, target) for a slash-clean package and target
PathJoin(pkg, target) ==
    IF pkg = "" THEN target ELSE IF target = "" THEN pkg ELSE pkg \o "/" \o target

(***************************************************************************)
(* getApparentModuleName, normalizeLabelString                             *)
(***************************************************************************)
getApparentModuleName(f) ==
    LET modules == SelectSeq(Rules(f), LAMBDA r : Kind(r) = "module")
        name[k \in 0..Len(modules)] ==
            IF k = 0 THEN ""
            ELSE IF AttrString(modules[k], "repo_name") # ""
                 THEN AttrString(modules[k], "repo_name")
                 ELSE IF AttrString(modules[k], "name") # ""
                      THEN AttrString(modules[k], "name")
                      ELSE name[k-1]
    IN  name[Len(modules)]

normalizeLabelString(rawLabel, apparentModuleName) ==
    LET label == ParseRelative(rawLabel)
    IN  IF label.Repository = ""
        THEN Format([label EXCEPT !.Repository = apparentModuleName])
        ELSE Format(label)

(***************************************************************************)
(* Proxies, AllProxies                                                     *)
(***************************************************************************)
\* mutant: isolated usages are not skipped
ProxiesWithIsolated(f, rawExtBzlFile, extName, dev) ==
    LET apparentModuleName == getApparentModuleName(f)
        extBzlFile == normalizeLabelString(rawExtBzlFile, apparentModuleName)
        matches(stmt) ==
            LET u == parseUseExtension(stmt)
            IN  IF u.proxy = "" \/ u.dev # dev THEN FALSE
                ELSE /\ normalizeLabelString(u.bzlFile, apparentModuleName) = extBzlFile
                     /\ u.name = extName
        used == SelectSeq(f, matches)
    IN  [k \in 1..Len(used) |-> parseUseExtension(used[k]).proxy]

Proxies(f, rawExtBzlFile, extName, dev) ==
    LET apparentModuleName == getApparentModuleName(f)
        extBzlFile == normalizeLabelString(rawExtBzlFile, apparentModuleName)
        matches(stmt) ==
            LET u == parseUseExtension(stmt)
            IN  IF u.proxy = "" \/ u.dev # dev \/ u.isolate THEN FALSE
                ELSE /\ normalizeLabelString(u.bzlFile, apparentModuleName) = extBzlFile
                     /\ u.name = extName
        used == SelectSeq(f, matches)
    IN  [k \in 1..Len(used) |-> parseUseExtension(used[k]).proxy]

AllProxies(f, proxy) ==
    LET found == {i \in 1..Len(f) : parseUseExtension(f[i]).proxy = proxy}
    IN  IF found = {} THEN <<>>
        ELSE LET first == CHOOSE i \in found : \A j \in found : i <= j
                 u == parseUseExtension(f[first])
             IN  IF u.isolate THEN <<proxy>>
                 ELSE Proxies(f, u.bzlFile, u.name, u.dev)

(***************************************************************************)
(* The files AllProxies is run on, and the proxies it is asked about.      *)
(***************************************************************************)
MaxModLen == 3      \* statements in the file handed to AllProxies

PrxShapes ==
    { UseExtension("ext", "//:e.bzl", "e", <<>>),
      UseExtension("ext2", "@//:e.bzl", "e", <<Kw("isolate", Ident("False"))>>),
      UseExtension("iso", "//:e.bzl", "e", <<Kw("isolate", Ident("True"))>>),
      UseExtension("dev", ":e.bzl", "e", <<Kw("dev_dependency", Ident("IS_DEV"))>>),
      UseExtension("m_ext", "@m//:e.bzl", "e", <<Ident("True")>>),
      UseExtension("ext", "//:f.bzl", "e", <<Kw("dev_dependency", Ident("False"))>>),
      UseExtension("other", "//:e.bzl", "f", <<>>),
      Call(Ident("module"), <<Kw("name", Str("m"))>>, 0),
      Call(Ident("module"), <<Kw("name", Str("m")), Kw("repo_name", Str("r"))>>, 0),
      Call(Dot(Ident("ext"), "tag"), <<>>, 0) }

PrxQueries == {"ext", "ext2", "iso", "dev", "m_ext", "unbound"}

InitProxies ==
    /\ modFile \in SeqsUpTo(PrxShapes, MaxModLen)
    /\ query \in PrxQueries
    /\ allProxies = PrxIdle
    /\ stmts = <<>> /\ initial = <<>> /\ useRepos = <<>> /\ collected = FALSE
    /\ selected = FALSE /\ before = <<>> /\ call = [op |-> "none", repos |-> <<>>]
    /\ panicked = FALSE /\ ncalls = 0
    /\ arrays = <<>> /\ file = Nil /\ origStmt = <<>> /\ insProxies = <<>> /\ insRet = InsIdle
    /\ fileReader = <<>> /\ loop = ResIdle

CallAllProxies ==
    /\ query # ""
    /\ ~allProxies.called
    /\ allProxies' = [called |-> TRUE, result |-> AllProxies(modFile, query)]
    /\ UNCHANGED <<modFile, query, mutVars, insVars, resVars>>

NextProxies == CallAllProxies

SpecProxies == InitProxies /\ [][NextProxies]_vars

(***************************************************************************)
(* collectApparentNamesAndIncludes: [names, includeLabels]; a map is a     *)
(* function from its keys.                                                 *)
(***************************************************************************)
EmptyMap == [k \in {} |-> ""]

Put(m, k, v) == [x \in DOMAIN m \cup {k} |-> IF x = k THEN v ELSE m[x]]

\* mutant: a name that is already mapped keeps its apparent name
PutAllAbsent(dst, src) == [x \in DOMAIN dst \cup DOMAIN src |-> IF x \in DOMAIN dst THEN dst[x] ELSE src[x]]

\* for k, v := range src { dst[k] = v }
PutAll(dst, src) == [x \in DOMAIN dst \cup DOMAIN src |-> IF x \in DOMAIN src THEN src[x] ELSE dst[x]]

\* the body of the loop over f.Rules(""): acc is [names, includeLabels]
collectFromRule(acc, dep) ==
    IF AttrString(dep, "name") = ""
    THEN IF dep.X.type # "Ident" \/ dep.X.Name # "include" THEN acc
         ELSE IF Len(dep.List) # 1 THEN acc
         ELSE IF dep.List[1].type = "StringExpr"
              THEN [acc EXCEPT !.includeLabels = Append(@, dep.List[1].Value)]
              ELSE acc
    ELSE IF Kind(dep) # "module" /\ Kind(dep) # "bazel_dep" THEN acc
    ELSE IF AttrString(dep, "repo_name") # ""
         THEN [acc EXCEPT !.names = Put(@, AttrString(dep, "name"), AttrString(dep, "repo_name"))]
         ELSE [acc EXCEPT !.names = Put(@, AttrString(dep, "name"), AttrString(dep, "name"))]

\* for _, dep := range deps[k..], from the accumulated acc
RECURSIVE collectFromRules(_, _, _)
collectFromRules(acc, deps, k) ==
    IF k > Len(deps) THEN acc
    ELSE collectFromRules(collectFromRule(acc, deps[k]), deps, k + 1)

\* deps, the value of f.Rules(""), is bound once
collectApparentNamesAndIncludes(f) ==
    CHOOSE result \in {collectFromRules([names |-> EmptyMap, includeLabels |-> <<>>], deps, 1) :
                          deps \in {Rules(f.Stmt)}} : TRUE

(***************************************************************************)
(* collectApparentNames.  Its locals are                                   *)
(*   [pc, apparentNames, seenFiles, filesToProcess, reads, ret]            *)
(* where reads lists the paths fileReader was called with (history) and    *)
(* ret is the map returned, Nil for the nil map.                           *)
(***************************************************************************)
RootPath == "MODULE.bazel"

collectStart(relPath) ==
    [pc |-> "loop", apparentNames |-> EmptyMap, seenFiles |-> {},
     filesToProcess |-> <<relPath>>, reads |-> <<>>, ret |-> Nil]

\* the paths appended to filesToProcess for the include labels of a file
IncludedPaths(includeLabels) ==
    [k \in 1..Len(includeLabels) |->
        LET l == ParseRelative(includeLabels[k]) IN PathJoin(l.Package, l.Target)]

\* mutant: the file is read before the seen check
collectIterationReadFirst(reader, st) ==
    LET f == Head(st.filesToProcess)
        rest == Tail(st.filesToProcess)
        bf == reader[f]
        read == [st EXCEPT !.reads = Append(@, f)]
    IN  IF f \in st.seenFiles THEN [read EXCEPT !.filesToProcess = rest]
        ELSE IF bf = Nil
             THEN [read EXCEPT !.pc = "done", !.filesToProcess = rest,
                               !.seenFiles = @ \cup {f}, !.ret = Nil]
        ELSE CHOOSE next \in
                 {[read EXCEPT !.filesToProcess = rest \o IncludedPaths(c.includeLabels),
                  !.seenFiles = @ \cup {f},
                  !.apparentNames = PutAll(@, c.names)] :
                  c \in {collectApparentNamesAndIncludes(bf)}} : TRUE

\* mutant: a file that does not exist is skipped
collectIterationSkipMissing(reader, st) ==
    LET f == Head(st.filesToProcess)
        rest == Tail(st.filesToProcess)
        bf == reader[f]
    IN  IF f \in st.seenFiles THEN [st EXCEPT !.filesToProcess = rest]
        ELSE IF bf = Nil
             THEN [st EXCEPT !.filesToProcess = rest, !.seenFiles = @ \cup {f},
                             !.reads = Append(@, f)]
        ELSE CHOOSE next \in
                 {[st EXCEPT !.filesToProcess = rest \o IncludedPaths(c.includeLabels),
                  !.seenFiles = @ \cup {f},
                  !.reads = Append(@, f),
                  !.apparentNames = PutAll(@, c.names)] :
                  c \in {collectApparentNamesAndIncludes(bf)}} : TRUE

\* one iteration of the loop over filesToProcess (lines 377-397); the result
\* c of collectApparentNamesAndIncludes is bound once, as a value
collectIteration(reader, st) ==
    LET f == Head(st.filesToProcess)
        rest == Tail(st.filesToProcess)
        bf == reader[f]
    IN  IF f \in st.seenFiles THEN [st EXCEPT !.filesToProcess = rest]
        ELSE IF bf = Nil
             THEN [st EXCEPT !.pc = "done", !.filesToProcess = rest,
                             !.seenFiles = @ \cup {f}, !.reads = Append(@, f), !.ret = Nil]
        ELSE CHOOSE next \in
                 {[st EXCEPT !.filesToProcess = rest \o IncludedPaths(c.includeLabels),
                  !.seenFiles = @ \cup {f},
                  !.reads = Append(@, f),
                  !.apparentNames = PutAll(@, c.names)] :
                  c \in {collectApparentNamesAndIncludes(bf)}} : TRUE

\* the loop has ended: return apparentNames
collectReturn(st) == [st EXCEPT !.pc = "done", !.ret = [type |-> "map", m |-> st.apparentNames]]

(***************************************************************************)
(* The repositories collectApparentNames is run on: four module files,     *)
(* each missing or holding up to MaxFragLen of its statements; the root    *)
(* file may start with a preamble of statements of every other kind.       *)
(***************************************************************************)
MaxFragLen == 2     \* chosen statements in one module file

Include(label) == Call(Ident("include"), <<Str(label)>>, 0)
BazelDep(args) == Call(Ident("bazel_dep"), args, 0)

Paths == {"MODULE.bazel", "a.MODULE.bazel", "sub/b.MODULE.bazel", "c.MODULE.bazel"}

Preamble ==
    << Call(Ident("module"), <<Kw("name", Str("m")), Kw("repo_name", Str("my_m"))>>, 0),
       BazelDep(<<Kw("name", Str("d")), Kw("version", Str("1.0"))>>),
       BazelDep(<<Kw("name", Ident("D_NAME")), Kw("repo_name", Str("hidden"))>>),
       BazelDep(<<Kw("name", Str("e")), Kw("repo_name", Ident("E_NAME"))>>),
       Call(Ident("http_archive"), <<Kw("name", Str("d")), Kw("repo_name", Str("archive"))>>, 0),
       Call(Dot(Ident("ext"), "bazel_dep"), <<Kw("name", Str("d")), Kw("repo_name", Str("tag"))>>, 0),
       UseExtension("ext", "//:e.bzl", "e", <<>>),
       Include("//:MODULE.bazel"),
       Call(Ident("include"), <<Str("//:c.MODULE.bazel"), Str("//:a.MODULE.bazel")>>, 0),
       Call(Ident("include"), <<Ident("C_LABEL")>>, 0),
       Call(Ident("include"), <<Str("//:c.MODULE.bazel"), Kw("name", Str("inc"))>>, 0) >>

Pool(path) ==
    CASE path = "MODULE.bazel" ->
             {Include("//:a.MODULE.bazel"), Include("//sub:b.MODULE.bazel")}
      [] path = "a.MODULE.bazel" ->
             {Include("//:c.MODULE.bazel"), BazelDep(<<Kw("name", Str("d")), Kw("repo_name", Str("a_d"))>>)}
      [] path = "sub/b.MODULE.bazel" ->
             {Include("//:MODULE.bazel"), BazelDep(<<Kw("name", Str("d")), Kw("repo_name", Str("b_d"))>>)}
      [] path = "c.MODULE.bazel" ->
             {Include("//:sub/b.MODULE.bazel"), BazelDep(<<Kw("repo_name", Str("c_d")), Kw("name", Str("d"))>>)}

File(stmt) == [type |-> "File", Stmt |-> stmt]

FilesAt(path) ==
    {Nil} \cup {File(s) : s \in SeqsUpTo(Pool(path), MaxFragLen)}
          \cup (IF path = RootPath
                THEN {File(Preamble \o s) : s \in SeqsUpTo(Pool(path), MaxFragLen)}
                ELSE {})

\* the fileReader arguments: one file, or nil, for each path
FileReaders ==
    {[p \in Paths |->
         CASE p = "MODULE.bazel" -> root
           [] p = "a.MODULE.bazel" -> a
           [] p = "sub/b.MODULE.bazel" -> b
           [] p = "c.MODULE.bazel" -> c] :
     root \in FilesAt("MODULE.bazel"), a \in FilesAt("a.MODULE.bazel"),
     b \in FilesAt("sub/b.MODULE.bazel"), c \in FilesAt("c.MODULE.bazel")}

InitResolve ==
    /\ fileReader = <<>>
    /\ loop = ResIdle
    /\ stmts = <<>> /\ initial = <<>> /\ useRepos = <<>> /\ collected = FALSE
    /\ selected = FALSE /\ before = <<>> /\ call = [op |-> "none", repos |-> <<>>]
    /\ panicked = FALSE /\ ncalls = 0
    /\ arrays = <<>> /\ file = Nil /\ origStmt = <<>> /\ insProxies = <<>> /\ insRet = InsIdle
    /\ modFile = <<>> /\ query = "" /\ allProxies = PrxIdle

\* ExtractModuleToApparentNameMapping(fileReader) calls
\* collectApparentNames(fileReader, "MODULE.bazel")
CallCollectApparentNames ==
    /\ loop.pc = "idle"
    /\ fileReader' \in FileReaders
    /\ loop' = collectStart(RootPath)
    /\ UNCHANGED <<mutVars, insVars, prxVars>>

LoopIteration ==
    /\ loop.pc = "loop"
    /\ Len(loop.filesToProcess) > 0
    /\ loop' = collectIteration(fileReader, loop)
    /\ UNCHANGED <<fileReader, mutVars, insVars, prxVars>>

LoopExit ==
    /\ loop.pc = "loop"
    /\ Len(loop.filesToProcess) = 0
    /\ loop' = collectReturn(loop)
    /\ UNCHANGED <<fileReader, mutVars, insVars, prxVars>>

NextResolve ==
    \/ CallCollectApparentNames
    \/ LoopIteration
    \/ LoopExit

SpecResolve == InitResolve /\ [][NextResolve]_vars

\* the function runs to its end: no step of it is postponed for ever
FairResolve == SpecResolve /\ WF_vars(NextResolve)

(***************************************************************************)
(* Claims about the mutators.                                              *)
(***************************************************************************)
\* arg imports the repository named r: a bare string r, or key = "r"
NamesRepo(arg, r) ==
    \/ arg.type = "StringExpr" /\ arg.Value = r
    \/ arg.type = "AssignExpr" /\ arg.RHS.type = "StringExpr" /\ arg.RHS.Value = r

\* occurrences of r among the non-leading arguments of the calls ptrs points to
Occurrences(heap, ptrs, r) ==
    LET places == UNION {{<<p, j>> : j \in 2..Len(heap[p].List)} : p \in Range(ptrs)}
    IN  Cardinality({pl \in places : NamesRepo(heap[pl[1]].List[pl[2]], r)})

\* a use_repo call as the parser produces it: a leading proxy identifier
WellFormedUseRepo(c) ==
    /\ c.X = Ident("use_repo")
    /\ Len(c.List) >= 1
    /\ c.List[1].type = "Ident"

\* C1: after AddRepoUsages(S, R) with S non-empty, every name of R that was
\* absent from the non-leading arguments of S occurs exactly once among them,
\* and every name that was present occurs as often as before.  (Stated for
\* well-formed calls and non-empty names, where the claim is least demanding.)
C1_AddIntroducesNoDuplicate ==
    (/\ call.op = "AddRepoUsages"
     /\ Len(useRepos) > 0
     /\ \A p \in Range(useRepos) : WellFormedUseRepo(before[p])) =>
        \A r \in Range(call.repos) \ {""} :
            IF Occurrences(before, useRepos, r) = 0
            THEN Occurrences(stmts, useRepos, r) = 1
            ELSE Occurrences(stmts, useRepos, r) = Occurrences(before, useRepos, r)

\* C2: after any sequence of AddRepoUsages and RemoveRepoUsages calls on the
\* calls returned by UseRepos, each call still has, at position 0, the proxy
\* identifier it had when it was collected.
C2_ProxyArgumentKept ==
    collected =>
        \A k \in DOMAIN useRepos :
            LET p == useRepos[k]
            IN  /\ Len(stmts[p].List) >= 1
                /\ stmts[p].List[1].type = "Ident"
                /\ stmts[p].List[1] = initial[p].List[1]

\* C2 witness: two collected calls, an add that appended and then a remove
\* that deleted arguments.
C2_Witness ==
    /\ collected
    /\ Len(useRepos) = 2
    /\ ncalls = 2
    /\ call.op = "RemoveRepoUsages"
    /\ before # initial
    /\ \E p \in Range(useRepos) : Len(stmts[p].List) < Len(before[p].List)

\* C9 as stated: AddRepoUsages panics whenever useRepos is empty, whatever the
\* repos, and changes nothing when useRepos is non-empty and repos is empty.
C9_PanicsForEveryRepos ==
    call.op = "AddRepoUsages" =>
        /\ Len(useRepos) = 0 => panicked
        /\ (Len(useRepos) > 0 /\ Len(call.repos) = 0) => stmts = before

\* C9 amended: AddRepoUsages panics when useRepos is empty and repos is not;
\* with empty repos it returns without panicking and changes nothing, also
\* when useRepos is empty.
C9_PanicsForNonEmptyRepos ==
    call.op = "AddRepoUsages" =>
        /\ (Len(useRepos) = 0 /\ Len(call.repos) > 0) => (panicked /\ stmts = before)
        /\ Len(call.repos) = 0 => (~panicked /\ stmts = before)

\* C9 witness: a call with no target statement and a repository to add panicked.
C9_Witness ==
    /\ call.op = "AddRepoUsages"
    /\ Len(useRepos) = 0
    /\ Len(call.repos) > 0
    /\ panicked

\* the argument list that C10 describes: position 0 kept, the bare strings and
\* key = "string" arguments naming a removed repository deleted, the rest kept
ListWithoutRepos(list, removal) ==
    IF Len(list) = 0 THEN list
    ELSE <<list[1]>> \o SelectSeq(Tail(list),
                                   LAMBDA arg : ~(\E r \in removal : NamesRepo(arg, r)))

\* C10: after RemoveRepoUsages(S, R) every call of S has its previous argument
\* list less exactly the non-leading bare strings and key = "string" arguments
\* whose value is in R; arguments of any other shape are preserved.
C10_RemovesExactlyTheMatching ==
    call.op = "RemoveRepoUsages" =>
        \A p \in Range(useRepos) :
            stmts[p].List = ListWithoutRepos(before[p].List, Range(call.repos))

(***************************************************************************)
(* Claims about NewUseRepo.                                                *)
(***************************************************************************)
\* C3: the statement sequence seen through the original file f after
\* NewUseRepo is element for element the one seen before the call.
C3_OriginalFileUntouched ==
    insRet.called => View(arrays, file) = origStmt

\* the proxy a statement binds with use_extension or calls a tag on, or ""
UsedProxy(stmt) ==
    IF parseUseExtension(stmt).proxy # "" THEN parseUseExtension(stmt).proxy
    ELSE parseTag(stmt)

\* the (1-based) indices of the statements that use a proxy of the set
Usages(f, proxiesSet) ==
    {i \in 1..Len(f) : UsedProxy(f[i]) # "" /\ UsedProxy(f[i]) \in proxiesSet}

MaxOf(S) == CHOOSE m \in S : \A x \in S : x <= m

\* C7: with no usage of a proxy of the set the file is returned as it is and
\* no statement is returned; otherwise the returned file has one statement
\* more, use_repo(q) right after the last usage, q the proxy of that usage,
\* the original statements around it in their order, and that call is the
\* statement returned.
C7_InsertedAfterLastUsage ==
    insRet.called =>
        LET usages == Usages(origStmt, Range(insProxies))
            n == Len(origStmt)
        IN  IF usages = {}
            THEN /\ insRet.file = file
                 /\ View(arrays, insRet.file) = origStmt
                 /\ insRet.useRepo = Nil
            ELSE LET i == MaxOf(usages)
                     new == View(arrays, insRet.file)
                     useRepo == Call(Ident("use_repo"), <<Ident(UsedProxy(origStmt[i]))>>, 0)
                 IN  /\ Len(new) = n + 1
                     /\ SubSeq(new, 1, i) = SubSeq(origStmt, 1, i)
                     /\ new[i + 1] = useRepo
                     /\ SubSeq(new, i + 2, n + 1) = SubSeq(origStmt, i + 1, n)
                     /\ insRet.useRepo = useRepo

\* C7 witness: the last usage is a tag call followed by other statements, an
\* earlier statement uses another proxy of the set, and f.Stmt has spare
\* capacity, so the call was spliced into the middle of the shared array.
C7_Witness ==
    /\ insRet.called
    /\ insRet.useRepo # Nil
    /\ Len(arrays[file.array]) > file.len
    /\ LET usages == Usages(origStmt, Range(insProxies))
       IN  /\ MaxOf(usages) < Len(origStmt)
           /\ parseTag(origStmt[MaxOf(usages)]) # ""
           /\ \E j \in usages : UsedProxy(origStmt[j]) # UsedProxy(origStmt[MaxOf(usages)])

(***************************************************************************)
(* Claims about AllProxies.                                                *)
(***************************************************************************)
\* the use_extension assignments of f, as indices
Bindings(f) == {i \in 1..Len(f) : parseUseExtension(f[i]).proxy # ""}

\* the usage of proxy p: its (first) use_extension assignment
UsageOf(f, p) ==
    LET bound == {i \in Bindings(f) : parseUseExtension(f[i]).proxy = p}
    IN  parseUseExtension(f[CHOOSE i \in bound : \A j \in bound : i <= j])

\* u and v are non-isolated usages of the same extension with the same flag
SameGroup(f, u, v) ==
    LET self == getApparentModuleName(f)
    IN  /\ ~u.isolate /\ ~v.isolate
        /\ normalizeLabelString(u.bzlFile, self) = normalizeLabelString(v.bzlFile, self)
        /\ u.name = v.name
        /\ u.dev = v.dev

\* C6: AllProxies(f, p) is empty when no use_extension assignment binds p,
\* <<p>> when p's usage is isolated, and otherwise the proxies, in file order,
\* of the non-isolated usages with the normalized bzl file, name and
\* dev_dependency flag of p's usage: p is among them, isolated proxies of the
\* extension are not.
C6_EquivalenceGroup ==
    allProxies.called =>
        LET f == modFile
            result == allProxies.result
        IN  IF ~(\E i \in Bindings(f) : parseUseExtension(f[i]).proxy = query)
            THEN result = <<>>
            ELSE IF UsageOf(f, query).isolate
            THEN result = <<query>>
            ELSE LET group == SelectSeq(f, LAMBDA stmt :
                                  /\ parseUseExtension(stmt).proxy # ""
                                  /\ SameGroup(f, parseUseExtension(stmt), UsageOf(f, query)))
                 IN  /\ result = [k \in 1..Len(group) |-> parseUseExtension(group[k]).proxy]
                     /\ query \in Range(result)
                     /\ \A i \in Bindings(f) :
                           (/\ parseUseExtension(f[i]).isolate
                            /\ \A j \in Bindings(f) \ {i} :
                                  parseUseExtension(f[j]).proxy # parseUseExtension(f[i]).proxy)
                           => parseUseExtension(f[i]).proxy \notin Range(result)

\* C6 witness: the group of ext holds another proxy, spelled with another
\* label, while an isolated usage of the same extension is in the file.
C6_Witness ==
    /\ allProxies.called
    /\ query = "ext"
    /\ allProxies.result = <<"ext", "ext2">>
    /\ \E i \in Bindings(modFile) : parseUseExtension(modFile[i]).proxy = "iso"

(***************************************************************************)
(* Claims about collectApparentNames.                                      *)
(***************************************************************************)
\* the paths a module file includes: its include("label") statements
IncludesOf(bf) ==
    IF bf = Nil THEN <<>>
    ELSE LET isInclude(stmt) ==
                 /\ stmt.type = "CallExpr"
                 /\ stmt.X = Ident("include")
                 /\ Len(stmt.List) = 1
                 /\ stmt.List[1].type = "StringExpr"
             incs == SelectSeq(bf.Stmt, isInclude)
         IN  [k \in 1..Len(incs) |->
                 LET l == ParseRelative(incs[k].List[1].Value) IN PathJoin(l.Package, l.Target)]

\* the paths reachable from the root through include statements
RECURSIVE ReachableFrom(_)
ReachableFrom(S) ==
    LET more == S \cup UNION {Range(IncludesOf(fileReader[p])) : p \in S}
    IN  IF more = S THEN S ELSE ReachableFrom(more)

Reachable == ReachableFrom({RootPath})

NoDuplicates(s) == \A i, j \in DOMAIN s : i # j => s[i] # s[j]

\* C4: collectApparentNames returns, and it calls fileReader at most once for
\* each path.
C4_TerminatesReadingEachPathOnce ==
    /\ <>(loop.pc = "done")
    /\ [](loop.pc # "idle" => NoDuplicates(loop.reads))

\* C4 witness: the call has returned a map after reading all four files of
\* an include graph with a self-include, a cycle through the root and a file
\* included from two files under two labels.
C4_Witness ==
    /\ loop.pc = "done"
    /\ loop.ret # Nil
    /\ Len(loop.reads) = 4
    /\ "MODULE.bazel" \in Range(IncludesOf(fileReader["MODULE.bazel"]))
    /\ "MODULE.bazel" \in Range(IncludesOf(fileReader["sub/b.MODULE.bazel"]))
    /\ "sub/b.MODULE.bazel" \in Range(IncludesOf(fileReader["MODULE.bazel"]))
    /\ "sub/b.MODULE.bazel" \in Range(IncludesOf(fileReader["c.MODULE.bazel"]))

\* C5: the nil map is returned exactly when fileReader returns nil for the
\* root or for a path reachable from it; a map is returned only when every
\* reachable file exists.
C5_NilIffAFileIsMissing ==
    loop.pc = "done" =>
        (loop.ret = Nil <=> \E p \in Reachable : fileReader[p] = Nil)

\* C5 witness: two files were read and merged before the missing one was met.
C5_Witness ==
    /\ loop.pc = "done"
    /\ loop.ret = Nil
    /\ Len(loop.reads) = 3
    /\ DOMAIN loop.apparentNames # {}

\* breadth-first order from the root, every path once: the files included by
\* the k-th path are put, if new, behind the paths found so far
RECURSIVE BreadthFirst(_, _)
BreadthFirst(order, k) ==
    IF k > Len(order) THEN order
    ELSE LET incs == IncludesOf(fileReader[order[k]])
             RECURSIVE extend(_, _)
             extend(o, j) ==
                 IF j > Len(incs) THEN o
                 ELSE IF incs[j] \in Range(o) THEN extend(o, j + 1)
                 ELSE extend(Append(o, incs[j]), j + 1)
         IN  BreadthFirst(extend(order, 1), k + 1)

\* the module(...) and bazel_dep(...) statements of a file that carry a
\* non-empty name, in file order
DeclarationsOf(bf) ==
    LET declares(stmt) ==
            /\ stmt.type = "CallExpr"
            /\ stmt.X \in {Ident("module"), Ident("bazel_dep")}
            /\ AttrString(stmt, "name") # ""
    IN  SelectSeq(bf.Stmt, declares)

RECURSIVE Concat(_)
Concat(ss) == IF Len(ss) = 0 THEN <<>> ELSE Head(ss) \o Concat(Tail(ss))

\* C8: when every reachable file exists, the map returned has exactly the
\* names declared by a module or bazel_dep statement of a reachable file, each
\* mapped by its last declaration in traversal order (files breadth-first,
\* statements in file order): to repo_name if set, else to the name itself.
C8_LastDeclarationWins ==
    (loop.pc = "done" /\ \A p \in Reachable : fileReader[p] # Nil) =>
        LET order == BreadthFirst(<<RootPath>>, 1)
            decls == Concat([k \in 1..Len(order) |-> DeclarationsOf(fileReader[order[k]])])
            names == {AttrString(decls[i], "name") : i \in 1..Len(decls)}
            last(n) == decls[MaxOf({i \in 1..Len(decls) : AttrString(decls[i], "name") = n})]
            expected == [n \in names |->
                            IF AttrString(last(n), "repo_name") # ""
                            THEN AttrString(last(n), "repo_name")
                            ELSE n]
        IN  /\ loop.ret # Nil
            /\ Range(order) = Reachable
            /\ loop.ret.m = expected

\* C8 witness: MODULE.bazel includes a and b, a includes c, and both b and c
\* declare d: c, the last file in breadth-first order, decides.
C8_Witness ==
    /\ loop.pc = "done"
    /\ loop.ret # Nil
    /\ loop.reads = <<"MODULE.bazel", "a.MODULE.bazel", "sub/b.MODULE.bazel", "c.MODULE.bazel">>
    /\ IncludesOf(fileReader["a.MODULE.bazel"]) = <<"c.MODULE.bazel">>
    /\ Len(DeclarationsOf(fileReader["sub/b.MODULE.bazel"])) > 0
    /\ "m" \in DOMAIN loop.ret.m
    /\ loop.ret.m["d"] = "c_d"

====
